---- MODULE Spec2Model ----
(***************************************************************************)
(* Model of src/replication/versioning_for_casual_dependencies.js:        *)
(* a single replica (class Database) holding, per id, a map from version  *)
(* number to value, and client sessions (class Client) that push an item  *)
(* onto their local array, store the array and merge the siblings the     *)
(* replica returns.                                                        *)
(*                                                                         *)
(* JavaScript arrays are objects passed by reference: storeValue stores    *)
(* the reference it is given, and Array.prototype.push mutates in place.   *)
(* The model therefore keeps a heap of arrays; the entries of the replica  *)
(* and the sessions hold references (indices) into it.                     *)
(***************************************************************************)
EXTENDS Integers, Sequences, FiniteSets, TLC

VARIABLES heap, values, lastVersion, currValue, ops, returned, pc, last,
          rets, unseen, added

vars == <<heap, values, lastVersion, currValue, ops, returned, pc, last,
          rets, unseen, added>>

----------------------------------------------------------------------------
(* Bounds of the exploration *)

(* calls explored under Spec *)
MaxOps == 3

(* calls explored under SpecStore *)
MaxStoreOps == 4

(* largest baseVersion a direct caller passes *)
MaxBase == 3

(* calls explored under SpecSingle *)
MaxSingleOps == 5

(* calls explored under SpecAdds *)
MaxAddOps == 4

(* calls explored under SpecMerge *)
MaxMergeOps == 4

(* Sentinels of the source: lastVersion starts as null, and a session that *)
(* never wrote passes undefined as the version argument.                   *)
Null == -1
Undefined == -2

Clients == {"C1", "C2"}
Ids == {"1", "2"}
Items == {"milk", "eggs"}

(* All sessions of the model: the two of the scenario and a third one,    *)
(* constructed the same way                                                *)
Sessions == Clients \cup {"C3"}

(* Items the sessions add under SpecSingle *)
ShopItems == {"milk", "eggs", "flour"}
Groceries == {"milk", "eggs", "flour", "bacon", "ham"}

(* Arrays a direct caller of storeValue passes as newVal *)
NewVals == { <<"milk">>, <<"eggs", "milk", "eggs">> }

(* Version arguments a direct caller of storeValue passes *)
Bases == {Undefined} \cup (1..MaxBase)

(* The top-level scenario, lines 89-97 *)
Script ==
  << [client |-> "C1", id |-> "1", item |-> "milk"],
     [client |-> "C2", id |-> "1", item |-> "eggs"],
     [client |-> "C1", id |-> "1", item |-> "flour"],
     [client |-> "C1", id |-> "1", item |-> "bacon"],
     [client |-> "C2", id |-> "1", item |-> "ham"] >>

(* pc once the run has left the scenario *)
Off == Len(Script) + 1

----------------------------------------------------------------------------
(* Helpers *)

Range(s) == { s[i] : i \in DOMAIN s }

EmptyMap == [x \in {} |-> 0]

(* Math.max(...currVersions) *)
Max(S) == CHOOSE x \in S : \A y \in S : y <= x

(* versions[k] = v *)
Put(versions, k, v) ==
  [x \in (DOMAIN versions) \cup {k} |-> IF x = k THEN v ELSE versions[x]]

(* delete versions[k] *)
Delete(versions, k) ==
  [x \in (DOMAIN versions) \ {k} |-> versions[x]]

----------------------------------------------------------------------------
(* Database.storeValue *)

(* variant: the first version numbered from 0 *)
NewEntryFromZero(newVal) == (0 :> newVal)

(* const newEntry = { id, versions: { 1: newVal } } *)
NewEntry(newVal) == (1 :> newVal)

(* variant: the next number taken from the count of versions *)
NewVersionByCount(versions) == Cardinality(DOMAIN versions) + 1

(* Object.keys(currValue.versions).map(Number); Math.max(...) + 1 *)
NewVersion(versions) == Max(DOMAIN versions) + 1

(* variant: the blind write lands on the latest version *)
BlindWriteAtMax(versions, newVal) ==
  Put(versions, Max(DOMAIN versions), newVal)

(* version === undefined: currValue.versions[newVersion] = newVal *)
BlindWrite(versions, newVal) ==
  Put(versions, NewVersion(versions), newVal)

(* variant: the comparison of the loop inverted *)
OverwriteLarger(versions, newVal, version) ==
  [k \in DOMAIN versions |-> IF k > version THEN newVal ELSE versions[k]]

(* variant: the loop left out *)
OverwriteNone(versions, newVal, version) == versions

(* for (const currVersion of Object.keys(versions))                       *)
(*   if (currVersion < version) versions[currVersion] = newVal            *)
(* (a numeric string compared with a number compares as numbers)          *)
OverwriteSmaller(versions, newVal, version) ==
  [k \in DOMAIN versions |-> IF k < version THEN newVal ELSE versions[k]]

(* variant: the base version is kept *)
DependentWriteKeepBase(versions, newVal, version) ==
  OverwriteSmaller(Put(versions, NewVersion(versions), newVal), newVal, version)

(* variant: a base that is not in the entry turns the write into a blind one *)
DependentWriteIfPresent(versions, newVal, version) ==
  IF version \in DOMAIN versions
  THEN OverwriteSmaller(Delete(Put(versions, NewVersion(versions), newVal), version),
                        newVal, version)
  ELSE Put(versions, NewVersion(versions), newVal)

(* variant: the smaller versions are removed instead of overwritten *)
DependentWriteRemoveSmaller(versions, newVal, version) ==
  LET inserted == Put(versions, NewVersion(versions), newVal)
  IN  [k \in { x \in DOMAIN inserted : x > version } |-> inserted[k]]

(* versions[newVersion] = newVal; delete versions[version]; the loop *)
DependentWrite(versions, newVal, version) ==
  LET inserted == Put(versions, NewVersion(versions), newVal)
      deleted  == Delete(inserted, version)
  IN  OverwriteSmaller(deleted, newVal, version)

(* storeValue(id, newVal, version) on the entries vals: the entries after  *)
(* the call and the lastVersion of the returned object (res is the entry   *)
(* of id itself).                                                          *)
StoreValue(vals, id, newVal, version) ==
  IF id \notin DOMAIN vals
  THEN [values |-> vals @@ (id :> NewEntry(newVal)), lastVersion |-> 1]
  ELSE IF version = Undefined
       THEN [values |-> [vals EXCEPT ![id] = BlindWrite(@, newVal)],
             lastVersion |-> NewVersion(vals[id])]
       ELSE [values |-> [vals EXCEPT ![id] = DependentWrite(@, newVal, version)],
             lastVersion |-> NewVersion(vals[id])]

----------------------------------------------------------------------------
(* Client.merge *)

(* ascending integer keys: the order of Object.values on integer-like keys *)
RECURSIVE SortedKeys(_)
SortedKeys(S) ==
  IF S = {} THEN << >>
  ELSE LET m == CHOOSE x \in S : \A y \in S : x <= y
       IN  <<m>> \o SortedKeys(S \ {m})

(* .flatMap(a => a) over the arrays visited in the given order *)
RECURSIVE FlatMap(_, _, _)
FlatMap(hp, versions, order) ==
  IF order = << >> THEN << >>
  ELSE hp[versions[Head(order)]] \o FlatMap(hp, versions, Tail(order))

(* variant: no deduplication *)
DedupNone(s) == s

(* [...new Set(allValues)]: first occurrences, in order *)
RECURSIVE Dedup(_)
Dedup(s) ==
  IF s = << >> THEN << >>
  ELSE LET front == Dedup(SubSeq(s, 1, Len(s) - 1))
           x == s[Len(s)]
       IN  IF x \in Range(front) THEN front ELSE Append(front, x)

(* merge when the versions are visited in the given order *)
MergeInOrder(hp, versions, order) == Dedup(FlatMap(hp, versions, order))

(* variant: only the latest version is read *)
MergeLatestOnly(hp, versions) == Dedup(hp[versions[Max(DOMAIN versions)]])

(* Client.merge(val) on val.res.versions *)
Merge(hp, versions) == MergeInOrder(hp, versions, SortedKeys(DOMAIN versions))

----------------------------------------------------------------------------
(* State *)

Snapshot == [heap |-> heap, values |-> values,
             lastVersion |-> lastVersion, currValue |-> currValue,
             rets |-> rets, unseen |-> unseen, added |-> added]

(* new Database(); new Client(db, "C1"); new Client(db, "C2"):             *)
(* every session starts with its own empty array                           *)
(* rets, unseen and added are history: the lastVersions each session got  *)
(* back, the items other sessions added since a session's last add, and    *)
(* the items added to each id                                              *)
Init ==
  /\ heap = [i \in 1..3 |-> << >>]
  /\ values = EmptyMap
  /\ lastVersion = [c \in Sessions |-> Null]
  /\ currValue = ("C1" :> 1) @@ ("C2" :> 2) @@ ("C3" :> 3)
  /\ ops = 0
  /\ returned = [id \in Ids |-> {}]
  /\ pc = 0
  /\ rets = [c \in Sessions |-> << >>]
  /\ unseen = [c \in Sessions |-> {}]
  /\ added = [id \in Ids |-> {}]
  /\ last = [op |-> "none", client |-> "none", id |-> "none", item |-> "none",
             newVal |-> 0, version |-> Undefined, lastVersion |-> 0,
             earlier |-> {}, prev |-> 0,
             pre |-> [heap |-> << >>, values |-> EmptyMap,
                      lastVersion |-> [c \in Sessions |-> Null],
                      currValue |-> ("C1" :> 1) @@ ("C2" :> 2) @@ ("C3" :> 3),
                      rets |-> [c \in Sessions |-> << >>],
                      unseen |-> [c \in Sessions |-> {}],
                      added |-> [id \in Ids |-> {}]]]

(* variant: the session keeps the array it stored *)
AssignMergedDropped(cv, c, ref) == cv

(* this.currValue = Client.merge(res): the session drops the array it    *)
(* stored and holds the new array merge built                              *)
AssignMerged(cv, c, ref) == [cv EXCEPT ![c] = ref]

(* variant: the items are pushed onto the array of the first version *)
MergeHeapInPlace(hp, versions) ==
  LET first == versions[Head(SortedKeys(DOMAIN versions))]
      all   == FlatMap(hp, versions, SortedKeys(DOMAIN versions))
  IN  Append([hp EXCEPT ![first] = all], Dedup(all))

(* the heap after Client.merge(val): flatMap and the spread build new      *)
(* arrays and only read the arrays of the versions; the array returned is  *)
(* the last of the heap                                                    *)
MergeHeap(hp, versions) == Append(hp, Merge(hp, versions))

(* variant: the session never passes its lastVersion *)
VersionArgNever(lv) == Undefined

(* this.lastVersion !== null ? this.lastVersion : undefined *)
VersionArg(lv) == IF lv # Null THEN lv ELSE Undefined

(* Client.add(id, val), lines 75-82 *)
Add(c, id, val) ==
  LET pushed  == [heap EXCEPT ![currValue[c]] = Append(@, val)]
      version == VersionArg(lastVersion[c])
      res     == StoreValue(values, id, currValue[c], version)
  IN  /\ heap' = MergeHeap(pushed, res.values[id])
      /\ values' = res.values
      /\ lastVersion' = [lastVersion EXCEPT ![c] = res.lastVersion]
      /\ currValue' = AssignMerged(currValue, c, Len(pushed) + 1)
      /\ ops' = ops + 1
      /\ returned' = [returned EXCEPT ![id] = @ \cup {res.lastVersion}]
      /\ pc' = IF /\ pc # Off
                  /\ pc < Len(Script)
                  /\ Script[pc + 1] = [client |-> c, id |-> id, item |-> val]
               THEN pc + 1 ELSE Off
      /\ rets' = [rets EXCEPT ![c] = Append(@, res.lastVersion)]
      /\ unseen' = [d \in Sessions |-> IF d = c THEN {} ELSE unseen[d] \cup {val}]
      /\ added' = [added EXCEPT ![id] = @ \cup {val}]
      /\ last' = [op |-> "add", client |-> c, id |-> id, item |-> val,
                  newVal |-> currValue[c], version |-> version,
                  lastVersion |-> res.lastVersion,
                  earlier |-> returned[id], prev |-> 0, pre |-> Snapshot]

(* a direct call replica.storeValue(id, newVal, version) with a fresh array *)
Store(id, content, version) ==
  LET ref == Len(heap) + 1
      res == StoreValue(values, id, ref, version)
  IN  /\ heap' = Append(heap, content)
      /\ values' = res.values
      /\ ops' = ops + 1
      /\ returned' = [returned EXCEPT ![id] = @ \cup {res.lastVersion}]
      /\ pc' = Off
      /\ last' = [op |-> "storeValue", client |-> "none", id |-> id,
                  item |-> "none", newVal |-> ref, version |-> version,
                  lastVersion |-> res.lastVersion,
                  earlier |-> returned[id], prev |-> 0, pre |-> Snapshot]
      /\ UNCHANGED <<lastVersion, currValue, rets, unseen, added>>

(* a direct call Client.merge(res) on the entry of id; prev is the array   *)
(* the call before returned when that call was a merge of the same entry   *)
MergeCall(id) ==
  /\ id \in DOMAIN values
  /\ heap' = MergeHeap(heap, values[id])
  /\ ops' = ops + 1
  /\ pc' = Off
  /\ last' = [op |-> "merge", client |-> "none", id |-> id, item |-> "none",
              newVal |-> Len(heap) + 1, version |-> Undefined,
              lastVersion |-> 0, earlier |-> returned[id],
              prev |-> IF last.op = "merge" /\ last.id = id THEN last.newVal ELSE 0,
              pre |-> Snapshot]
  /\ UNCHANGED <<values, lastVersion, currValue, returned, rets, unseen, added>>

----------------------------------------------------------------------------
(* Specifications *)

AddCall == \E c \in Clients, id \in Ids, val \in Items : Add(c, id, val)

StoreCall == \E id \in Ids, content \in NewVals, version \in Bases :
               Store(id, content, version)

(* sessions and direct callers of the replica, interleaved *)
Next ==
  \/ ops < MaxOps /\ AddCall
  \/ ops < MaxOps /\ StoreCall

Spec == Init /\ [][Next]_vars

(* direct callers of storeValue only *)
NextStore == ops < MaxStoreOps /\ StoreCall

SpecStore == Init /\ [][NextStore]_vars

(* the two sessions of the scenario adding groceries to key "1" in any     *)
(* order, for as many calls as the scenario makes                          *)
NextScenario ==
  /\ ops < Len(Script)
  /\ \E c \in Clients, val \in Groceries : Add(c, "1", val)

SpecScenario == Init /\ [][NextScenario]_vars

(* any number of adds by three sessions, all on key "1" *)
NextSingle ==
  /\ ops < MaxSingleOps
  /\ \E c \in Sessions, val \in ShopItems : Add(c, "1", val)

SpecSingle == Init /\ [][NextSingle]_vars

(* sessions only, free to use both keys *)
NextAdds == ops < MaxAddOps /\ AddCall

SpecAdds == Init /\ [][NextAdds]_vars

(* sessions, and callers of merge on the entries they wrote *)
NextMerge ==
  \/ ops < MaxMergeOps /\ AddCall
  \/ ops < MaxMergeOps /\ \E id \in Ids : MergeCall(id)

SpecMerge == Init /\ [][NextMerge]_vars

----------------------------------------------------------------------------
(* Vocabulary of the properties: the last call, the entry it wrote before  *)
(* and after, and the items an array holds                                 *)

IsCall == last.op # "none"
IsAdd == last.op = "add"
Known == IsCall /\ last.id \in DOMAIN last.pre.values
Blind == Known /\ last.version = Undefined
Dependent == Known /\ last.version # Undefined
PreEntry == last.pre.values[last.id]
Entry == values[last.id]
PreVal(k) == last.pre.heap[PreEntry[k]]
PostVal(k) == heap[Entry[k]]
NewValue == heap[last.newVal]
ItemsOf(hp, versions) == UNION { Range(hp[versions[k]]) : k \in DOMAIN versions }
EntrySets(id) == [k \in DOMAIN values[id] |-> Range(heap[values[id][k]])]
Perms(S) == { p \in [1..Cardinality(S) -> S] : \A i, j \in DOMAIN p : i # j => p[i] # p[j] }
NoDup(s) == \A i, j \in DOMAIN s : i # j => s[i] # s[j]

----------------------------------------------------------------------------
(* C1: a dependent write with a base v that is present removes v, holds   *)
(* newValue at the new version, replaces the value of every other old      *)
(* version below v by newValue and leaves every old version above v with   *)
(* the value it had.                                                       *)
C1_DependentWrite ==
  (Dependent /\ last.version \in DOMAIN PreEntry) =>
     /\ last.version \notin DOMAIN Entry
     /\ DOMAIN Entry = ((DOMAIN PreEntry) \ {last.version}) \cup {last.lastVersion}
     /\ last.lastVersion \notin DOMAIN PreEntry
     /\ Entry[last.lastVersion] = last.newVal
     /\ \A k \in (DOMAIN PreEntry) \ {last.version} :
          IF k < last.version
          THEN PostVal(k) = NewValue
          ELSE Entry[k] = PreEntry[k] /\ PostVal(k) = PreVal(k)

C1_Witness ==
  /\ Dependent
  /\ last.version \in DOMAIN PreEntry
  /\ \E k \in DOMAIN PreEntry : k < last.version /\ PreVal(k) # NewValue
  /\ \E k \in DOMAIN PreEntry : k > last.version /\ PreVal(k) # NewValue

(* C2: a blind write on a known id adds exactly one version and leaves     *)
(* every old version in place with its value; so for each of several       *)
(* blind writes in a row.                                                  *)
C2_BlindWrite ==
  Blind =>
     /\ Cardinality(DOMAIN Entry) = Cardinality(DOMAIN PreEntry) + 1
     /\ DOMAIN PreEntry \subseteq DOMAIN Entry
     /\ \A k \in DOMAIN PreEntry : Entry[k] = PreEntry[k] /\ PostVal(k) = PreVal(k)

C2_Witness ==
  /\ Blind
  /\ DOMAIN PreEntry = 1..3
  /\ DOMAIN Entry = 1..4
  /\ \E k \in DOMAIN PreEntry : PreVal(k) # NewValue

(* C3: storeValue on an unknown id creates an entry with the single        *)
(* version 1 holding newValue and returns 1, with or without a base.       *)
C3_Creation ==
  (IsCall /\ ~Known) =>
     /\ last.id \in DOMAIN values
     /\ DOMAIN Entry = {1}
     /\ Entry[1] = last.newVal
     /\ last.lastVersion = 1

C3_Witness ==
  /\ IsCall
  /\ ~Known
  /\ last.version \in 1..MaxBase
  /\ DOMAIN Entry = {1}

(* C4: every lastVersion returned for an id is greater than every          *)
(* lastVersion returned for that id before.                                *)
C4_StrictlyIncreasing ==
  IsCall => \A r \in last.earlier : last.lastVersion > r

(* C5: on a known id the returned lastVersion is the largest version of    *)
(* the entry before the call plus one, a number no version of the entry    *)
(* carries.                                                                *)
C5_NextVersion ==
  Known =>
     /\ last.lastVersion = Max(DOMAIN PreEntry) + 1
     /\ \A k \in DOMAIN PreEntry : k # last.lastVersion

C5_Witness ==
  /\ Known
  /\ Cardinality(DOMAIN PreEntry) < Max(DOMAIN PreEntry)
  /\ last.lastVersion = 4

(* C6 as stated: with a base that is not in the entry the only change is   *)
(* newValue at the new version; every old version keeps its value.         *)
C6_MissingBaseNoOp ==
  (Dependent /\ last.version \notin DOMAIN PreEntry) =>
     /\ DOMAIN Entry = (DOMAIN PreEntry) \cup {last.lastVersion}
     /\ Entry[last.lastVersion] = last.newVal
     /\ \A k \in DOMAIN PreEntry : Entry[k] = PreEntry[k] /\ PostVal(k) = PreVal(k)

(* C6 amended: with a base that is not in the entry no old version is      *)
(* removed, but the overwrite still runs: every old version below the      *)
(* base takes newValue, every old version above it keeps its value, and    *)
(* newValue stays at the new version unless the base equals that number.   *)
C6_MissingBaseOverwrites ==
  (Dependent /\ last.version \notin DOMAIN PreEntry) =>
     /\ DOMAIN Entry = (DOMAIN PreEntry) \cup
                         (IF last.version = last.lastVersion THEN {} ELSE {last.lastVersion})
     /\ last.version # last.lastVersion => Entry[last.lastVersion] = last.newVal
     /\ \A k \in DOMAIN PreEntry :
          IF k < last.version
          THEN PostVal(k) = NewValue
          ELSE Entry[k] = PreEntry[k] /\ PostVal(k) = PreVal(k)

C6_Witness ==
  /\ Dependent
  /\ last.version \notin DOMAIN PreEntry
  /\ \E k \in DOMAIN PreEntry : k < last.version /\ PreVal(k) # NewValue
  /\ \E k \in DOMAIN PreEntry : k > last.version /\ PreVal(k) # NewValue
  /\ last.lastVersion \in DOMAIN Entry

(* C7: after add the session's lastVersion is the one storeValue returned  *)
(* and its local value holds exactly the items of the versions of the      *)
(* entry it wrote.                                                         *)
C7_AddResult ==
  IsAdd =>
     /\ lastVersion[last.client] = last.lastVersion
     /\ Range(heap[currValue[last.client]]) = ItemsOf(heap, Entry)

C7_Witness ==
  /\ IsAdd
  /\ Cardinality(DOMAIN Entry) >= 2
  /\ Range(heap[currValue[last.client]]) # Range(NewValue)
  /\ last.version # Undefined

(* C8: the scenario of lines 89-97 yields, step by step, the entries and   *)
(* bases of the worked example, and the merged view at its end holds all   *)
(* five items.                                                             *)
C8_Scenario ==
  /\ pc = 1 => /\ last.version = Undefined
               /\ EntrySets("1") = (1 :> {"milk"})
  /\ pc = 2 => /\ last.version = Undefined
               /\ EntrySets("1") = (1 :> {"milk"}) @@ (2 :> {"eggs"})
  /\ pc = 3 => /\ last.version = 1
               /\ EntrySets("1") = (2 :> {"eggs"}) @@ (3 :> {"milk", "flour"})
  /\ pc = 4 => /\ last.version = 3
               /\ EntrySets("1") = (2 :> {"eggs", "milk", "flour", "bacon"})
                                   @@ (4 :> {"eggs", "milk", "flour", "bacon"})
  /\ pc = 5 => /\ last.version = 2
               /\ EntrySets("1") = (4 :> {"eggs", "milk", "flour", "bacon"})
                                   @@ (5 :> {"milk", "eggs", "ham"})
               /\ Range(Merge(heap, values["1"])) = Groceries
               /\ Range(heap[currValue["C2"]]) = Groceries

C8_Witness == pc = 5 /\ ops = 5 /\ DOMAIN values["1"] = {4, 5}

(* C9: merge of an entry returns the items that occur in some version,     *)
(* each once, whatever the order in which the versions are visited.        *)
C9_MergeIsUnion ==
  \A id \in DOMAIN values :
     /\ Range(Merge(heap, values[id])) = ItemsOf(heap, values[id])
     /\ NoDup(Merge(heap, values[id]))
     /\ \A order \in Perms(DOMAIN values[id]) :
          /\ Range(MergeInOrder(heap, values[id], order)) = ItemsOf(heap, values[id])
          /\ NoDup(MergeInOrder(heap, values[id], order))

C9_Witness ==
  /\ IsAdd
  /\ Cardinality(DOMAIN Entry) >= 2
  /\ \E k \in DOMAIN Entry : ~NoDup(PostVal(k))
  /\ \E j, k \in DOMAIN Entry : j # k /\ Range(PostVal(j)) \cap Range(PostVal(k)) # {}
  /\ heap[currValue[last.client]] = Merge(heap, Entry)
  /\ \E order \in Perms(DOMAIN Entry) :
        MergeInOrder(heap, Entry, order) # Merge(heap, Entry)

(* C10: add by one session leaves every other session's lastVersion and   *)
(* local value and every entry of another id as they were, and the push    *)
(* alters no array a version of an entry held before the call.             *)
C10_AddFrame ==
  IsAdd =>
     /\ \A d \in Clients \ {last.client} :
          /\ lastVersion[d] = last.pre.lastVersion[d]
          /\ currValue[d] = last.pre.currValue[d]
          /\ heap[currValue[d]] = last.pre.heap[currValue[d]]
     /\ DOMAIN values = (DOMAIN last.pre.values) \cup {last.id}
     /\ \A id \in (DOMAIN last.pre.values) \ {last.id} :
          values[id] = last.pre.values[id]
     /\ \A id \in DOMAIN last.pre.values :
          \A k \in DOMAIN last.pre.values[id] :
             heap[last.pre.values[id][k]] = last.pre.heap[last.pre.values[id][k]]

C10_Witness ==
  /\ IsAdd
  /\ \E d \in Clients \ {last.client} : lastVersion[d] # Null
  /\ \E id \in DOMAIN last.pre.values : id # last.id
  /\ last.id \in DOMAIN last.pre.values
  /\ last.pre.lastVersion[last.client] # Null

(* C11: merge leaves the entries, the sessions and every array that        *)
(* existed as they were, and a second merge of the same entry right after  *)
(* the first returns the same set of items.                                *)
C11_MergeTwice ==
  last.op = "merge" =>
     /\ values = last.pre.values
     /\ lastVersion = last.pre.lastVersion
     /\ currValue = last.pre.currValue
     /\ \A ref \in DOMAIN last.pre.heap : heap[ref] = last.pre.heap[ref]
     /\ Range(heap[last.newVal]) = ItemsOf(last.pre.heap, PreEntry)
     /\ last.prev # 0 => Range(heap[last.newVal]) = Range(heap[last.prev])

C11_Witness ==
  /\ last.op = "merge"
  /\ last.prev # 0
  /\ last.prev # last.newVal
  /\ Cardinality(DOMAIN Entry) >= 2
  /\ Cardinality(Range(heap[last.newVal])) >= 2

(* C12: a session passes no base exactly on its first add, when its        *)
(* lastVersion is null; on every later add it passes the lastVersion its   *)
(* own previous add got back, whatever other sessions wrote in between.    *)
C12_BaseOfSession ==
  IsAdd =>
     LET h == last.pre.rets[last.client]
     IN  /\ (last.version = Undefined) <=> (h = << >>)
         /\ (h = << >>) <=> (last.pre.lastVersion[last.client] = Null)
         /\ h # << >> => last.version = h[Len(h)]

C12_Witness ==
  /\ IsAdd
  /\ Len(last.pre.rets[last.client]) >= 1
  /\ last.version = last.pre.rets[last.client][Len(last.pre.rets[last.client])]
  /\ last.pre.unseen[last.client] # {}
  /\ \E d \in Clients \ {last.client} : lastVersion[d] > last.version

(* Items the version k held before the last call that newValue lacks *)
StaleItems(k) == Range(PreVal(k)) \ Range(NewValue)

(* C13: a dependent write of a session can replace the value of a version  *)
(* below its base by a value that lacks an item of the replaced value      *)
(* (the witness); each item so dropped is one another session added after  *)
(* the writer's last add.                                                  *)
C13_StaleOnlyUnseen ==
  (IsAdd /\ Dependent) =>
     \A k \in DOMAIN PreEntry :
        k < last.version => StaleItems(k) \subseteq last.pre.unseen[last.client]

C13_Witness ==
  /\ IsAdd
  /\ Dependent
  /\ \E k \in (DOMAIN PreEntry) \cap (DOMAIN Entry) :
        /\ k < last.version
        /\ StaleItems(k) # {}
        /\ Entry[k] = last.newVal

(* C14: with all sessions adding to one key, the versions of the entry     *)
(* together hold every item ever added, and so does the local value of a   *)
(* session right after its add.                                            *)
C14_NoItemLost ==
  "1" \in DOMAIN values =>
     /\ added["1"] \subseteq ItemsOf(heap, values["1"])
     /\ IsAdd => added["1"] \subseteq Range(heap[currValue[last.client]])

C14_Witness ==
  /\ IsAdd
  /\ Dependent
  /\ added["1"] = ShopItems
  /\ \A c \in Sessions : lastVersion[c] # Null
  /\ \E k \in (DOMAIN PreEntry) \cap (DOMAIN Entry) :
        k < last.version /\ StaleItems(k) # {}
  /\ \E k \in DOMAIN Entry : Range(PostVal(k)) # ShopItems

Writers == { c \in Sessions : lastVersion[c] # Null }

(* C15: with all sessions adding to one key, the version numbers of the    *)
(* entry are the lastVersions of the sessions that have added, one per     *)
(* session, and the base of a dependent write is in the entry.             *)
C15_VersionsAreLastVersions ==
  /\ "1" \notin DOMAIN values => Writers = {}
  /\ "1" \in DOMAIN values =>
        /\ DOMAIN values["1"] = { lastVersion[c] : c \in Writers }
        /\ \A c, d \in Writers : c # d => lastVersion[c] # lastVersion[d]
        /\ Cardinality(DOMAIN values["1"]) = Cardinality(Writers)
  /\ (IsAdd /\ Dependent) => last.version \in DOMAIN PreEntry

C15_Witness ==
  /\ IsAdd
  /\ Dependent
  /\ Writers = Sessions
  /\ Cardinality(DOMAIN values["1"]) = 3
  /\ \E k \in DOMAIN Entry : k < last.version

(* C16: after an add the session's lastVersion is a version of the entry   *)
(* it wrote, and that version holds the array it wrote.                    *)
C16_LastVersionPresent ==
  IsAdd =>
     /\ lastVersion[last.client] \in DOMAIN Entry
     /\ Entry[lastVersion[last.client]] = last.newVal

(* C17: after storeValue some version of the entry holds newValue,         *)
(* whatever the base.                                                      *)
C17_NewValueStored ==
  (IsCall /\ last.op # "merge") => \E k \in DOMAIN Entry : Entry[k] = last.newVal

C17_Witness ==
  /\ Dependent
  /\ last.version >= last.lastVersion
  /\ Cardinality(DOMAIN PreEntry) >= 2
  /\ \E k \in DOMAIN PreEntry : PreVal(k) # NewValue
  /\ \A k \in DOMAIN Entry : Entry[k] = last.newVal

(* C18: every entry has at least one version, so the maximum of its        *)
(* version numbers exists.                                                 *)
C18_EntryNeverEmpty ==
  \A id \in DOMAIN values :
     /\ DOMAIN values[id] # {}
     /\ \E m \in DOMAIN values[id] : \A k \in DOMAIN values[id] : k <= m

C18_Witness ==
  /\ Dependent
  /\ last.version = last.lastVersion
  /\ last.lastVersion \notin DOMAIN Entry
  /\ DOMAIN PreEntry = {1}
  /\ DOMAIN Entry = {1}

====
